---- MODULE Spec2Model ----
(***************************************************************************)
(* A model of rna_draw/draw.py: the command-line entry                     *)
(* (__rna_draw_from_args, __get_render_type), the RNADrawer object         *)
(* (__init__, draw, __setup) and the steps of RNADrawer.__render (pair     *)
(* list, layout, curve fit, figure size, drawing, savefig).                *)
(*                                                                         *)
(* Python strings are modelled as tuples of one-character strings, Python  *)
(* lists as tuples read with a 0-based accessor, and an optional argument  *)
(* as <<>> (None) or <<v>> (the value v).                                  *)
(***************************************************************************)
EXTENDS Integers, Sequences, FiniteSets, TLC

VARIABLES
    pc,               \* position of the current request in the code
    instance,         \* TRUE once RNADrawer() has been constructed
    self_draw_params, \* RNADrawer.__draw_params
    render_type_name, \* args.render_type: <<>> or <<name>>
    render_type,      \* what __get_render_type returned
    data,             \* what __get_data_from_args returned
    ss,               \* draw's ss argument
    seq,              \* draw's seq argument / local: <<>> or <<string>>
    draw_params,      \* draw's draw_params argument
    params,           \* the params argument __render received
    colorSeq,         \* the (seq, ss) get_rgb_colors was called with: <<>> if not called
    pairmap,          \* __render's pairmap
    pairs,            \* __render's pairs list
    i,                \* loop index of the pair loop
    treeInvoked,      \* setup_tree was called in this request
    xarray,           \* r.xarray_
    yarray,           \* r.yarray_
    figsize,          \* arguments of r.fig.set_size_inches: <<>> if not called
    drawn,            \* r.draw completed in this request
    savefigCalls,     \* r.fig.savefig calls in this request
    fitCount,         \* curve_fit executions in this process
    error,            \* the exception that ended the request, or "none"
    failedAt,         \* the step that raised it, or "none"
    callHistory       \* the draw_params arguments of the draw calls so far

vars == <<pc, instance, self_draw_params, render_type_name, render_type, data,
          ss, seq, draw_params, params, colorSeq, pairmap, pairs, i,
          treeInvoked, xarray, yarray, figsize, drawn, savefigCalls, fitCount,
          error, failedAt, callHistory>>

----------------------------------------------------------------------------
(* Bounds of the model *)

\* longest dot-bracket string handed to draw
MaxLen == 3
\* longest pairing relation the pair loop is run on
MaxResidues == 5
\* largest layout coordinate
MaxCoord == 1
\* most draw calls on one RNADrawer
MaxCalls == 3

----------------------------------------------------------------------------
(* Python helpers *)

\* list[k] with Python's 0-based index
At(list, k) == list[k + 1]

\* range(n)
Range(n) == 0 .. (n - 1)

\* min(list) and max(list) of a non-empty list
MinOf(list) == CHOOSE m \in {list[k] : k \in DOMAIN list} :
                   \A k \in DOMAIN list : m <= list[k]
MaxOf(list) == CHOOSE m \in {list[k] : k \in DOMAIN list} :
                   \A k \in DOMAIN list : m >= list[k]

\* strings of length 0..n over an alphabet
StringsUpTo(alphabet, n) == UNION {[1 .. k -> alphabet] : k \in 0 .. n}

\* " " * n
Spaces(n) == [k \in 1 .. n |-> " "]

\* Python's None for the string-valued names
None == "None"

----------------------------------------------------------------------------
(* RNADrawer.__render, lines 115-120: the pair list *)

\* DEFAULT_COLORS["e"]
DefaultEdgeColor == "DEFAULT_COLORS[e]"

\* "p": 1.0
DefaultWeight == 1

\* the entry appended for residue k
PairEntry(pm, k) ==
    [from |-> k, to |-> At(pm, k), p |-> DefaultWeight, color |-> DefaultEdgeColor]

\* a faulty condition: every paired residue is taken
PairSelected_AnyPaired(pm, k) == At(pm, k) # -1

\* if pairmap[i] > i
PairSelected(pm, k) == At(pm, k) > k

\* one iteration of the loop body
PairLoopBody(pm, k, acc) ==
    IF PairSelected(pm, k) THEN Append(acc, PairEntry(pm, k)) ELSE acc

\* the whole loop, from index k on
RECURSIVE BuildPairs(_, _, _)
BuildPairs(pm, k, acc) ==
    IF k >= Len(pm) THEN acc
    ELSE BuildPairs(pm, k + 1, PairLoopBody(pm, k, acc))

\* the pairing relations of n residues: symmetric, no self pair, -1 unpaired
PairingRelations(n) ==
    {pm \in [1 .. n -> -1 .. (n - 1)] :
        \A k \in Range(n) :
            /\ At(pm, k) # k
            /\ At(pm, k) # -1 => At(pm, At(pm, k)) = k}

----------------------------------------------------------------------------
(* render_rna.get_pairmap_from_secstruct: one stack per bracket channel *)

OpenSymbols == {"(", "["}
CloseSymbols == {")", "]"}
UnpairedSymbol == "."

Channel(c) == IF c \in {"(", ")"} THEN "round" ELSE "square"

RECURSIVE ScanSecstruct(_, _, _, _)
ScanSecstruct(s, k, stacks, pm) ==
    IF k >= Len(s)
    THEN IF \A ch \in DOMAIN stacks : stacks[ch] = <<>>
         THEN [err |-> "none", pairmap |-> pm]
         ELSE [err |-> "UnbalancedStructureError", pairmap |-> <<>>]
    ELSE LET c == At(s, k)
             ch == Channel(c)
         IN  IF c \in OpenSymbols
             THEN ScanSecstruct(s, k + 1,
                                [stacks EXCEPT ![ch] = Append(@, k)], pm)
             ELSE IF c \in CloseSymbols
             THEN IF stacks[ch] = <<>>
                  THEN [err |-> "UnbalancedStructureError", pairmap |-> <<>>]
                  ELSE LET j == stacks[ch][Len(stacks[ch])]
                       IN  ScanSecstruct(s, k + 1,
                               [stacks EXCEPT ![ch] = SubSeq(@, 1, Len(@) - 1)],
                               [pm EXCEPT ![j + 1] = k, ![k + 1] = j])
             ELSE IF c = UnpairedSymbol
             THEN ScanSecstruct(s, k + 1, stacks, pm)
             ELSE [err |-> "StructureSyntaxError", pairmap |-> <<>>]

get_pairmap_from_secstruct(s) ==
    ScanSecstruct(s, 0, [round |-> <<>>, square |-> <<>>],
                  [k \in 1 .. Len(s) |-> -1])

----------------------------------------------------------------------------
(* str.lower() *)

UpperLetters == <<"A", "B", "C", "D", "E", "F", "G", "H", "I", "J", "K", "L", "M",
                  "N", "O", "P", "Q", "R", "S", "T", "U", "V", "W", "X", "Y", "Z">>
LowerLetters == <<"a", "b", "c", "d", "e", "f", "g", "h", "i", "j", "k", "l", "m",
                  "n", "o", "p", "q", "r", "s", "t", "u", "v", "w", "x", "y", "z">>

LowerChar(c) ==
    IF \E k \in DOMAIN UpperLetters : UpperLetters[k] = c
    THEN LowerLetters[CHOOSE k \in DOMAIN UpperLetters : UpperLetters[k] = c]
    ELSE c

Lower(s) == [k \in DOMAIN s |-> LowerChar(s[k])]

----------------------------------------------------------------------------
(* __get_render_type, lines 185-198 *)

Name_res_type == <<"r", "e", "s", "_", "t", "y", "p", "e">>
Name_paired == <<"p", "a", "i", "r", "e", "d">>
Name_strand == <<"s", "t", "r", "a", "n", "d">>
Name_none == <<"n", "o", "n", "e">>
Name_motif == <<"m", "o", "t", "i", "f">>

\* a faulty else branch: an unknown name is taken as no scheme
GetRenderTypeElse_ReturnsNone(name) == [raised |-> FALSE, value |-> None]

\* else: raise ValueError("unknown render type: " + render_type_name)
GetRenderTypeElse(name) == [raised |-> TRUE, value |-> "ValueError"]

\* nameOpt is <<>> (None) or <<name>>
GetRenderType(nameOpt) ==
    IF nameOpt = <<>> THEN [raised |-> FALSE, value |-> None]
    ELSE LET name == Lower(nameOpt[1])
         IN  IF name = Name_res_type
             THEN [raised |-> FALSE, value |-> "RenderType.RES_TYPE"]
             ELSE IF name = Name_paired
             THEN [raised |-> FALSE, value |-> "RenderType.PAIRED"]
             ELSE IF name = Name_strand
             THEN [raised |-> FALSE, value |-> "RenderType.STRAND"]
             ELSE IF name = Name_none
             THEN [raised |-> FALSE, value |-> None]
             ELSE GetRenderTypeElse(name)

\* get_parser, line 35: "scheme to color by: res_type,paired,motif,none"
HelpTextNames == {Name_res_type, Name_paired, Name_motif, Name_none}

----------------------------------------------------------------------------
(* The inputs the requests are drawn from *)

\* -render_type values given on the command line
RenderTypeArgs ==
    {<<>>} \cup {<<n>> : n \in {
        <<"r", "e", "s", "_", "t", "y", "p", "e">>,
        <<"R", "E", "S", "_", "T", "Y", "P", "E">>,
        <<"R", "e", "s", "_", "T", "y", "p", "e">>,
        <<"p", "a", "i", "r", "e", "d">>,
        <<"P", "A", "I", "R", "E", "D">>,
        <<"s", "t", "r", "a", "n", "d">>,
        <<"S", "t", "r", "a", "n", "d">>,
        <<"n", "o", "n", "e">>,
        <<"N", "O", "N", "E">>,
        <<"m", "o", "t", "i", "f">>,
        <<"M", "o", "t", "i", "f">>,
        <<"b", "o", "g", "u", "s">>,
        <<"p", "a", "i", "r">>}}

\* dot-bracket strings of one bracket channel, with one unrecognized character
Structures == StringsUpTo({"(", ")", ".", "x"}, MaxLen)

\* seq arguments: None, or a sequence of 0..MaxLen residues
SeqArgs == {<<>>} \cup {<<s>> : s \in StringsUpTo({"A"}, MaxLen)}

\* draw_params arguments: None or a DrawParameters object
DrawParamsArgs == {None, "P1", "P2"}

\* the structures of the requests that follow one another
FewStructures == {<<".">>, <<"(", ")">>, <<"[", "]">>, <<"(">>}

\* coordinate lists of n residues
CoordLists(n) == [1 .. n -> 0 .. MaxCoord]
----------------------------------------------------------------------------
(* State *)

Init ==
    /\ pc = "idle"
    /\ instance = FALSE
    /\ self_draw_params = "unset"
    /\ render_type_name = <<>>
    /\ render_type = None
    /\ data = None
    /\ ss = <<>>
    /\ seq = <<>>
    /\ draw_params = None
    /\ params = None
    /\ colorSeq = <<>>
    /\ pairmap = <<>>
    /\ pairs = <<>>
    /\ i = 0
    /\ treeInvoked = FALSE
    /\ xarray = <<>>
    /\ yarray = <<>>
    /\ figsize = <<>>
    /\ drawn = FALSE
    /\ savefigCalls = 0
    /\ fitCount = 0
    /\ error = "none"
    /\ failedAt = "none"
    /\ callHistory = <<>>

cliVars == <<render_type_name, render_type, data>>
argVars == <<ss, seq, draw_params>>
renderVars == <<params, colorSeq, pairmap, pairs, i, treeInvoked, xarray, yarray,
                figsize, drawn, savefigCalls>>
errVars == <<error, failedAt>>

\* no request is running: the process is idle, or the last request returned or raised
Ended == pc \in {"idle", "returned", "failed"}

\* a new request starts with nothing left of the one before
FreshRequest ==
    /\ params' = None
    /\ colorSeq' = <<>>
    /\ pairmap' = <<>>
    /\ pairs' = <<>>
    /\ i' = 0
    /\ treeInvoked' = FALSE
    /\ xarray' = <<>>
    /\ yarray' = <<>>
    /\ figsize' = <<>>
    /\ drawn' = FALSE
    /\ savefigCalls' = 0
    /\ error' = "none"
    /\ failedAt' = "none"

\* an exception leaves the request at the step that raised it
Raise(step, err) ==
    /\ pc' = "failed"
    /\ error' = err
    /\ failedAt' = step

----------------------------------------------------------------------------
(* __rna_draw_from_args, lines 201-215 *)

\* rna_draw(**kwargs) or main(): the parsed arguments
CliStart(SS, SEQ, NAMES, limit) ==
    /\ Ended
    /\ Len(callHistory) < limit
    /\ \E s \in SS, q \in SEQ, n \in NAMES :
        /\ ss' = s
        /\ seq' = q
        /\ render_type_name' = n
    /\ render_type' = None
    /\ data' = None
    /\ draw_params' = None
    /\ instance' = FALSE
    /\ self_draw_params' = "unset"
    /\ FreshRequest
    /\ pc' = "get_data"
    /\ UNCHANGED <<fitCount, callHistory>>

\* data = __get_data_from_args(args): None, a Data object, or Data(...) raises
CliGetData ==
    /\ pc = "get_data"
    /\ \E outcome \in {None, "Data", "raise"} :
        IF outcome = "raise"
        THEN Raise("get_data", "DataError") /\ UNCHANGED data
        ELSE data' = outcome /\ pc' = "get_render_type" /\ UNCHANGED errVars
    /\ UNCHANGED <<instance, self_draw_params, fitCount, callHistory,
                   render_type_name, render_type, argVars, renderVars>>

\* render_type = __get_render_type(args.render_type)
CliGetRenderType ==
    /\ pc = "get_render_type"
    /\ LET r == GetRenderType(render_type_name)
       IN  IF r.raised
           THEN Raise("get_render_type", r.value) /\ UNCHANGED render_type
           ELSE render_type' = r.value /\ pc' = "default_color" /\ UNCHANGED errVars
    /\ UNCHANGED <<instance, self_draw_params, fitCount, callHistory,
                   render_type_name, data, argVars, renderVars>>

\* default_color: absent, parsed by colorer.parse_color_code, or that raises
CliDefaultColor ==
    /\ pc = "default_color"
    /\ \E outcome \in {"absent", "parsed", "raise"} :
        IF outcome = "raise"
        THEN Raise("parse_color_code", "ColorError")
        ELSE pc' = "new_drawer" /\ UNCHANGED errVars
    /\ UNCHANGED <<instance, self_draw_params, fitCount, callHistory,
                   cliVars, argVars, renderVars>>

\* RNADrawer.__init__, lines 78-80
RNADrawerInit ==
    /\ instance' = TRUE
    /\ self_draw_params' = "DEFAULT"

\* rd = RNADrawer()
CliNewDrawer ==
    /\ pc = "new_drawer"
    /\ RNADrawerInit
    /\ pc' = "call_draw"
    /\ UNCHANGED <<fitCount, callHistory, cliVars, argVars, renderVars, errVars>>

\* rd.draw(args.ss, seq=args.seq, ...): draw_params is not passed
CliCallDraw ==
    /\ pc = "call_draw"
    /\ callHistory' = Append(callHistory, None)
    /\ pc' = "setup"
    /\ UNCHANGED <<instance, self_draw_params, fitCount,
                   cliVars, argVars, renderVars, errVars>>

----------------------------------------------------------------------------
(* RNADrawer used as a library object *)

NewDrawer ==
    /\ pc = "idle"
    /\ ~instance
    /\ RNADrawerInit
    /\ UNCHANGED <<pc, fitCount, callHistory, cliVars, argVars, renderVars, errVars>>

\* a caller invokes draw(ss, seq, draw_params=...) on the instance
CallDraw(SS, SEQ, PARAMS, limit) ==
    /\ Ended
    /\ instance
    /\ Len(callHistory) < limit
    /\ \E s \in SS, q \in SEQ, dp \in PARAMS :
        /\ ss' = s
        /\ seq' = q
        /\ draw_params' = dp
        /\ callHistory' = Append(callHistory, dp)
    /\ FreshRequest
    /\ pc' = "setup"
    /\ UNCHANGED <<instance, self_draw_params, fitCount, cliVars>>

----------------------------------------------------------------------------
(* RNADrawer.draw, lines 94-105 *)

\* a faulty __setup: None resets the stored parameters
SetupParams_ResetsOnNone(stored, arg) == IF arg # None THEN arg ELSE "DEFAULT"

\* __setup, lines 107-109: the value of self.__draw_params afterwards
SetupParams(stored, arg) == IF arg # None THEN arg ELSE stored

\* self.__setup(draw_params); if seq is None: seq = " " * len(ss)
Setup ==
    /\ pc = "setup"
    /\ self_draw_params' = SetupParams(self_draw_params, draw_params)
    /\ seq' = IF seq = <<>> THEN <<Spaces(Len(ss))>> ELSE seq
    /\ pc' = "get_rgb_colors"
    /\ UNCHANGED <<instance, fitCount, callHistory, cliVars, ss, draw_params,
                   renderVars, errVars>>

\* self.__colorer.get_rgb_colors(seq, ss, ...): returns the colours or raises
GetRgbColors ==
    /\ pc = "get_rgb_colors"
    /\ colorSeq' = seq
    /\ \E ok \in BOOLEAN :
        IF ok
        THEN pc' = "render" /\ UNCHANGED errVars
        ELSE Raise("get_rgb_colors", "ColorError")
    /\ UNCHANGED <<instance, self_draw_params, fitCount, callHistory, cliVars,
                   argVars, params, pairmap, pairs, i, treeInvoked, xarray,
                   yarray, figsize, drawn, savefigCalls>>

----------------------------------------------------------------------------
(* RNADrawer.__render, lines 111-168 *)

\* called with self.__draw_params; pairmap and the pair list, lines 114-120
GetPairmap ==
    /\ pc = "render"
    /\ params' = self_draw_params
    /\ LET r == get_pairmap_from_secstruct(ss)
       IN  IF r.err # "none"
           THEN Raise("get_pairmap_from_secstruct", r.err)
                /\ UNCHANGED <<pairmap, pairs, i>>
           ELSE /\ pairmap' = r.pairmap
                /\ pairs' = BuildPairs(r.pairmap, 0, <<>>)
                /\ i' = Len(r.pairmap)
                /\ pc' = "setup_tree"
                /\ UNCHANGED errVars
    /\ UNCHANGED <<instance, self_draw_params, fitCount, callHistory, cliVars,
                   argVars, colorSeq, treeInvoked, xarray, yarray, figsize,
                   drawn, savefigCalls>>

\* r.setup_tree(...), get_size, set_xlim/set_ylim, lines 122-129: one point per
\* residue; min() of an empty list raises ValueError
SetupTree ==
    /\ pc = "setup_tree"
    /\ treeInvoked' = TRUE
    /\ \E ok \in BOOLEAN :
        IF ~ok
        THEN Raise("setup_tree", "LayoutError") /\ UNCHANGED <<xarray, yarray>>
        ELSE \E xs \in CoordLists(Len(ss)), ys \in CoordLists(Len(ss)) :
               /\ xarray' = xs
               /\ yarray' = ys
               /\ IF Len(xs) = 0
                  THEN Raise("set_xlim", "ValueError")
                  ELSE pc' = "curve_fit" /\ UNCHANGED errVars
    /\ UNCHANGED <<instance, self_draw_params, fitCount, callHistory, cliVars,
                   argVars, params, colorSeq, pairmap, pairs, i, figsize, drawn,
                   savefigCalls>>

\* param, param_cov = curve_fit(test, x, y), lines 136-149
CurveFit ==
    /\ pc = "curve_fit"
    /\ fitCount' = fitCount + 1
    /\ pc' = "set_size"
    /\ UNCHANGED <<instance, self_draw_params, callHistory, cliVars, argVars,
                   renderVars, errVars>>

\* test(x, a, b, c) = a * (x - b) ** c at the fitted parameters, as a term
ScaleFactor(area) == [curve |-> "param[0]*(area-param[1])**param[2]", area |-> area]

\* if min(r.xarray_) != max(r.yarray_)
RescaleCondition(xs, ys) == MinOf(xs) # MaxOf(ys)

\* the two arguments of set_size_inches, lines 152-158
SizeArgs(xs, ys) ==
    LET xext == MaxOf(xs) - MinOf(xs)
        yext == MaxOf(ys) - MinOf(ys)
        area == xext * yext
    IN  <<[num |-> xext, den |-> ScaleFactor(area)],
          [num |-> yext, den |-> ScaleFactor(area)]>>

\* lines 151-158; set_size_inches rejects a size that is not positive and finite
SetSize ==
    /\ pc = "set_size"
    /\ IF RescaleCondition(xarray, yarray)
       THEN /\ figsize' = SizeArgs(xarray, yarray)
            /\ \E ok \in BOOLEAN :
                IF ok
                THEN pc' = "draw" /\ UNCHANGED errVars
                ELSE Raise("set_size_inches", "ValueError")
       ELSE /\ pc' = "draw"
            /\ UNCHANGED <<figsize, errVars>>
    /\ UNCHANGED <<instance, self_draw_params, fitCount, callHistory, cliVars,
                   argVars, params, colorSeq, pairmap, pairs, i, treeInvoked,
                   xarray, yarray, drawn, savefigCalls>>

\* a faulty order: the file is written before the drawing is done
RDraw_SavesFirst ==
    /\ pc = "draw"
    /\ savefigCalls' = savefigCalls + 1
    /\ \E ok \in BOOLEAN :
        IF ok
        THEN drawn' = TRUE /\ pc' = "returned" /\ UNCHANGED errVars
        ELSE Raise("draw", "DrawError") /\ UNCHANGED drawn
    /\ UNCHANGED <<instance, self_draw_params, fitCount, callHistory, cliVars,
                   argVars, params, colorSeq, pairmap, pairs, i, treeInvoked,
                   xarray, yarray, figsize>>

\* r.draw(...), lines 159-166
RDraw ==
    /\ pc = "draw"
    /\ \E ok \in BOOLEAN :
        IF ok
        THEN drawn' = TRUE /\ pc' = "savefig" /\ UNCHANGED errVars
        ELSE Raise("draw", "DrawError") /\ UNCHANGED drawn
    /\ UNCHANGED <<instance, self_draw_params, fitCount, callHistory, cliVars,
                   argVars, params, colorSeq, pairmap, pairs, i, treeInvoked,
                   xarray, yarray, figsize, savefigCalls>>

\* r.fig.savefig(filename + ".png"); return r.fig
SaveFig ==
    /\ pc = "savefig"
    /\ savefigCalls' = savefigCalls + 1
    /\ \E ok \in BOOLEAN :
        IF ok
        THEN pc' = "returned" /\ UNCHANGED errVars
        ELSE Raise("savefig", "OSError")
    /\ UNCHANGED <<instance, self_draw_params, fitCount, callHistory, cliVars,
                   argVars, params, colorSeq, pairmap, pairs, i, treeInvoked,
                   xarray, yarray, figsize, drawn>>

\* everything from draw's first line to its return
DrawSteps ==
    \/ Setup
    \/ GetRgbColors
    \/ GetPairmap
    \/ SetupTree
    \/ CurveFit
    \/ SetSize
    \/ RDraw
    \/ SaveFig

----------------------------------------------------------------------------
(* The pair loop of __render, one iteration at a time *)

InitPairs ==
    /\ pc = "pair_loop"
    /\ instance = TRUE
    /\ self_draw_params = "DEFAULT"
    /\ render_type_name = <<>>
    /\ render_type = None
    /\ data = None
    /\ ss = <<>>
    /\ seq = <<>>
    /\ draw_params = None
    /\ params = "DEFAULT"
    /\ colorSeq = <<>>
    /\ pairmap \in UNION {PairingRelations(n) : n \in 0 .. MaxResidues}
    /\ pairs = <<>>
    /\ i = 0
    /\ treeInvoked = FALSE
    /\ xarray = <<>>
    /\ yarray = <<>>
    /\ figsize = <<>>
    /\ drawn = FALSE
    /\ savefigCalls = 0
    /\ fitCount = 0
    /\ error = "none"
    /\ failedAt = "none"
    /\ callHistory = <<>>

\* for i in range(len(pairmap)): if pairmap[i] > i: pairs.append(...)
PairLoopStep ==
    /\ pc = "pair_loop"
    /\ i < Len(pairmap)
    /\ pairs' = PairLoopBody(pairmap, i, pairs)
    /\ i' = i + 1
    /\ UNCHANGED <<pc, instance, self_draw_params, fitCount, callHistory, cliVars,
                   argVars, params, colorSeq, pairmap, treeInvoked, xarray,
                   yarray, figsize, drawn, savefigCalls, errVars>>

----------------------------------------------------------------------------
(* Specifications *)

\* one draw request on a new RNADrawer, over all the bounded inputs
Next ==
    \/ NewDrawer
    \/ CallDraw(Structures, SeqArgs, {None}, 1)
    \/ DrawSteps

Spec == Init /\ [][Next]_vars

\* up to MaxCalls draw requests on one RNADrawer
NextCalls ==
    \/ NewDrawer
    \/ CallDraw(FewStructures, {<<>>}, DrawParamsArgs, MaxCalls)
    \/ DrawSteps

SpecCalls == Init /\ [][NextCalls]_vars

\* command-line requests, each through __rna_draw_from_args
NextCli ==
    \/ CliStart(FewStructures, {<<>>}, RenderTypeArgs, MaxCalls)
    \/ CliGetData
    \/ CliGetRenderType
    \/ CliDefaultColor
    \/ CliNewDrawer
    \/ CliCallDraw
    \/ DrawSteps

SpecCli == Init /\ [][NextCli]_vars

\* the pair loop on every pairing relation of up to MaxResidues residues
SpecPairs == InitPairs /\ [][PairLoopStep]_vars
----------------------------------------------------------------------------
(* Properties *)

\* the pair loop has run over the whole pairmap
PairLoopDone == pc = "pair_loop" /\ i = Len(pairmap)

\* symmetric, no self pair, -1 for an unpaired residue
WellFormedPairmap(pm) ==
    \A k \in Range(Len(pm)) :
        /\ At(pm, k) \in (-1 .. (Len(pm) - 1)) \ {k}
        /\ At(pm, k) # -1 => At(pm, At(pm, k)) = k

\* C1: for a symmetric pairing relation without self pairs, with -1 for unpaired
\* residues, the finished edge list holds exactly one entry per base pair: no
\* pair is missing or doubled, no unpaired residue appears, every entry has
\* from < to, the default weight 1.0 and the default edge color.
C1_OneEdgePerPair ==
    (PairLoopDone /\ WellFormedPairmap(pairmap)) =>
        /\ \A a \in Range(Len(pairmap)), b \in Range(Len(pairmap)) :
              (a < b /\ At(pairmap, a) = b) =>
                  Cardinality({k \in DOMAIN pairs :
                                  pairs[k].from = a /\ pairs[k].to = b}) = 1
        /\ \A k \in DOMAIN pairs :
              /\ pairs[k].from \in Range(Len(pairmap))
              /\ pairs[k].to \in Range(Len(pairmap))
              /\ pairs[k].from < pairs[k].to
              /\ At(pairmap, pairs[k].from) = pairs[k].to
              /\ At(pairmap, pairs[k].to) = pairs[k].from
              /\ pairs[k].p = 1
              /\ pairs[k].color = "DEFAULT_COLORS[e]"
        /\ 2 * Len(pairs) =
              Cardinality({k \in Range(Len(pairmap)) : At(pairmap, k) # -1})

\* two crossing pairs and an unpaired residue, all through the loop
C1_Witness ==
    /\ PairLoopDone
    /\ Len(pairs) = 2
    /\ \E k \in Range(Len(pairmap)) : At(pairmap, k) = -1
    /\ \E a \in Range(Len(pairmap)), b \in Range(Len(pairmap)) :
          a < b /\ b < At(pairmap, a) /\ At(pairmap, a) < At(pairmap, b)

\* the figure-size step (lines 151-158) has run in this request
SizeStepDone ==
    \/ pc \in {"draw", "savefig", "returned"}
    \/ pc = "failed" /\ failedAt \in {"set_size_inches", "draw", "savefig"}

\* C2: whenever the bounding box has zero height (min y = max y), the
\* figure-size step skips the area-based rescale: a*(area - b)**c is not
\* evaluated and set_size_inches is not called.
C2_ZeroHeightSkipsRescale ==
    (SizeStepDone /\ MinOf(yarray) = MaxOf(yarray)) => figsize = <<>>

\* C9: for every layout of non-zero height (max y > min y), set_size_inches is
\* called with the x-extent and the y-extent, each divided by the same factor
\* a*(area - b)**c at area = x-extent * y-extent.
C9_NonZeroHeightRescales ==
    (SizeStepDone /\ MaxOf(yarray) > MinOf(yarray)) =>
        /\ Len(figsize) = 2
        /\ figsize[1].num = MaxOf(xarray) - MinOf(xarray)
        /\ figsize[2].num = MaxOf(yarray) - MinOf(yarray)
        /\ figsize[1].den = figsize[2].den
        /\ figsize[1].den.area =
              (MaxOf(xarray) - MinOf(xarray)) * (MaxOf(yarray) - MinOf(yarray))

\* C3: the file is saved only as the last step, after colour resolution,
\* pair-map parsing, layout, figure sizing and drawing; a request that fails in
\* one of these never reaches savefig, and a successful one saves exactly once.
C3_SaveIsLastStep ==
    /\ savefigCalls <= 1
    /\ savefigCalls = 1 =>
          /\ colorSeq # <<>>
          /\ params # None
          /\ i = Len(pairmap)
          /\ treeInvoked
          /\ Len(xarray) = Len(ss)
          /\ fitCount >= 1
          /\ SizeStepDone
          /\ drawn
    /\ (pc = "failed" /\ failedAt # "savefig") => savefigCalls = 0
    /\ pc = "returned" => savefigCalls = 1

\* a request that failed in r.draw, the last step before savefig
C3_Witness == pc = "failed" /\ failedAt = "draw" /\ savefigCalls = 0 /\ treeInvoked

\* C4: a draw call whose sequence length differs from len(ss) is rejected
\* before get_rgb_colors and setup_tree are invoked, so the sequence handed to
\* colour resolution always has length len(ss).
C4_SeqLengthValidated ==
    /\ (seq # <<>> /\ Len(seq[1]) # Len(ss)) => (colorSeq = <<>> /\ ~treeInvoked)
    /\ colorSeq # <<>> => Len(colorSeq[1]) = Len(ss)

\* C5: over any sequence of draw calls in one process the curve fit is
\* executed at most once.
C5_FitAtMostOnce == fitCount <= 1

\* the names __get_render_type takes, after lower()
RecognizedNames == {Name_res_type, Name_paired, Name_strand, Name_none}

\* __get_render_type has been called in this request
RenderTypeStepDone ==
    /\ pc \notin {"idle", "get_data", "get_render_type"}
    /\ ~(pc = "failed" /\ failedAt = "get_data")

\* C6: a render-type name that is neither absent nor, whatever its letter
\* case, a recognized name makes __get_render_type raise, and no RNADrawer,
\* colour resolution, layout or file write happens for that request.
C6_UnknownSchemeFails ==
    (/\ RenderTypeStepDone
     /\ render_type_name # <<>>
     /\ Lower(render_type_name[1]) \notin RecognizedNames) =>
        /\ pc = "failed"
        /\ failedAt = "get_render_type"
        /\ error = "ValueError"
        /\ ~instance
        /\ colorSeq = <<>>
        /\ ~treeInvoked
        /\ savefigCalls = 0

\* an unrecognized name, not in lower case, has been rejected
C6_Witness ==
    /\ pc = "failed"
    /\ failedAt = "get_render_type"
    /\ render_type_name # <<>>
    /\ render_type_name[1] # Lower(render_type_name[1])
    /\ Lower(render_type_name[1]) \notin RecognizedNames

\* C7: each name of the -render_type help text (res_type, paired, motif, none),
\* in any letter case, is accepted by __get_render_type: it does not raise.
C7_HelpTextNamesAccepted ==
    (/\ RenderTypeStepDone
     /\ render_type_name # <<>>
     /\ Lower(render_type_name[1]) \in HelpTextNames) =>
        ~(pc = "failed" /\ failedAt = "get_render_type")

\* the most recent draw_params argument that was not None, else the defaults
RECURSIVE MostRecentParams(_)
MostRecentParams(h) ==
    IF h = <<>> THEN "DEFAULT"
    ELSE IF h[Len(h)] # None THEN h[Len(h)]
    ELSE MostRecentParams(SubSeq(h, 1, Len(h) - 1))

\* C8: the spacing parameters a draw call uses are its draw_params argument if
\* not None, else the most recent non-None draw_params of an earlier call on
\* the instance, else the construction defaults; a call with None leaves the
\* stored parameters as they were.
C8_ParamsPersist ==
    /\ params # None => params = MostRecentParams(callHistory)
    /\ (instance /\ pc # "setup") =>
          self_draw_params = MostRecentParams(callHistory)
    /\ (instance /\ pc = "setup") =>
          self_draw_params =
              MostRecentParams(SubSeq(callHistory, 1, Len(callHistory) - 1))

\* a call with None, after a call with parameters, renders with those
C8_Witness ==
    /\ Len(callHistory) >= 2
    /\ callHistory[Len(callHistory)] = None
    /\ params \in {"P1", "P2"}
    /\ pc = "returned"

====
